---- MODULE Spec2Model ----
(***************************************************************************)
(* Model of biosure_app.py: the synthetic data generator (generate_data),  *)
(* the dashboard's main() and the portfolio reconciler analyze_portfolio.  *)
(*                                                                         *)
(* Representation choices:                                                 *)
(*  - a "%Y-%m-%d" date string is the triple <<y, m, d>> of its fields;    *)
(*  - a pandas Timestamp / datetime at midnight is the 1-tuple <<n>> of    *)
(*    its day number (days since 1970-01-01); NaT is the empty tuple;      *)
(*  - a Patient_ID "PT-<n>" is the number n (the prefix is constant and    *)
(*    all numbers have five digits, so string order is numeric order);     *)
(*  - money is a whole number; the reserves used are even, so that         *)
(*    reserve * 0.5 is exact.                                              *)
(***************************************************************************)
EXTENDS Integers, Sequences, FiniteSets, TLC

VARIABLES pc, i, pharma_data, claims_data, csv_files,
          pharma_df, claims_df, ledger, prev_ledger, ncalls

vars == <<pc, i, pharma_data, claims_data, csv_files,
          pharma_df, claims_df, ledger, prev_ledger, ncalls>>

(***************************************************************************)
(* Bounds of the model.                                                    *)
(***************************************************************************)
\* number of iterations of generate_data's loop (100 in the program)
GenPatients == 3
\* longest ClaimEvent input handed to analyze_portfolio
MaxClaims == 2
\* number of successive calls of analyze_portfolio / runs of main()
MaxCalls == 2

(***************************************************************************)
(* Dates: datetime, strftime("%Y-%m-%d"), pd.to_datetime, timedelta.       *)
(***************************************************************************)
NaT == <<>>
NaN == "NaN"

Timestamp(n) == <<n>>

IsDateStr(cell) == Len(cell) = 3

\* day number of the civil date y-m-d (proleptic Gregorian calendar)
DaysFromCivil(y, m, d) ==
    LET yy  == IF m <= 2 THEN y - 1 ELSE y
        era == yy \div 400
        yoe == yy - era * 400
        mp  == (m + 9) % 12
        doy == (153 * mp + 2) \div 5 + d - 1
        doe == yoe * 365 + yoe \div 4 - yoe \div 100 + doy
    IN  era * 146097 + doe - 719468

\* civil date <<y, m, d>> of a day number
CivilFromDays(z) ==
    LET zz  == z + 719468
        era == zz \div 146097
        doe == zz - era * 146097
        yoe == (doe - doe \div 1460 + doe \div 36524 - doe \div 146096) \div 365
        doy == doe - (365 * yoe + yoe \div 4 - yoe \div 100)
        mp  == (5 * doy + 2) \div 153
        d   == doy - (153 * mp + 2) \div 5 + 1
        m   == IF mp < 10 THEN mp + 3 ELSE mp - 9
        y   == yoe + era * 400 + (IF m <= 2 THEN 1 ELSE 0)
    IN  <<y, m, d>>

datetime(y, m, d) == Timestamp(DaysFromCivil(y, m, d))

\* ts + timedelta(days=n)
plus_timedelta(ts, n) == Timestamp(ts[1] + n)

\* ts.strftime("%Y-%m-%d")
strftime(ts) == CivilFromDays(ts[1])

\* pd.to_datetime on one cell: a date string is parsed, a Timestamp is kept
to_datetime(cell) ==
    IF cell = NaT THEN NaT
    ELSE IF IsDateStr(cell) THEN Timestamp(DaysFromCivil(cell[1], cell[2], cell[3]))
    ELSE cell

\* (a - b).days
days_between(a, b) == a[1] - b[1]

(***************************************************************************)
(* generate_data                                                           *)
(***************************************************************************)
revenue == 420000

\* revenue * 0.40
initial_reserve == (revenue * 40) \div 100

rescue_events == { [code |-> "J9359", desc |-> "Glofitamab (Columvi)"],
                   [code |-> "Z51.5", desc |-> "Hospice"] }

\* sample of random.randint(0, 365)
StartOffsets == {0, 365}

\* sample of random.randint(30, 200)
FailDays == {30, 180, 200}

patient_id_Constant(k) == 10000

\* f"PT-{10000+i}"
patient_id(k) == 10000 + k

PharmaRow(pid, ship, booked, reserve) ==
    [Patient_ID |-> pid, Shipment_Date |-> ship, Payer |-> "Commercial Plan",
     Revenue_Booked |-> booked, Current_Reserve_Held |-> reserve,
     Contract_Terms |-> "100% Rebate if Fail < 6mo"]

ClaimRow(pid, date, code, desc) ==
    [Patient_ID |-> pid, Date |-> date, Code |-> code, Description |-> desc]

\* one iteration of the loop of generate_data
GenIteration ==
    /\ pc = "generate"
    /\ i < GenPatients
    /\ \E offset \in StartOffsets, fails \in BOOLEAN,
          fail_days \in FailDays, rescue \in rescue_events :
          LET start_date == plus_timedelta(datetime(2023, 6, 1), offset)
              fail_date  == plus_timedelta(start_date, fail_days)
              infusion   == ClaimRow(patient_id(i), strftime(start_date),
                                     "Q2041", "CAR-T Infusion")
              failure    == ClaimRow(patient_id(i), strftime(fail_date),
                                     rescue.code, rescue.desc)
          IN  /\ pharma_data' = Append(pharma_data,
                     PharmaRow(patient_id(i), strftime(start_date),
                               revenue, initial_reserve))
              /\ claims_data' = IF fails
                                THEN claims_data \o <<infusion, failure>>
                                ELSE Append(claims_data, infusion)
    /\ i' = i + 1
    /\ UNCHANGED <<pc, csv_files, pharma_df, claims_df, ledger, prev_ledger, ncalls>>

\* the two to_csv calls that end generate_data
WriteCsv ==
    /\ pc = "generate"
    /\ i = GenPatients
    /\ csv_files' = [pharma |-> pharma_data, claims |-> claims_data]
    /\ pc' = "main"
    /\ UNCHANGED <<i, pharma_data, claims_data, pharma_df, claims_df,
                   ledger, prev_ledger, ncalls>>

(***************************************************************************)
(* analyze_portfolio                                                       *)
(***************************************************************************)
\* pharma_df['Shipment_Date'] = pd.to_datetime(pharma_df['Shipment_Date'])
convert_pharma(pharma) ==
    [k \in 1..Len(pharma) |->
        [pharma[k] EXCEPT !.Shipment_Date = to_datetime(@)]]

\* claims_df['Date'] = pd.to_datetime(claims_df['Date'])
convert_claims(claims) ==
    [k \in 1..Len(claims) |-> [claims[k] EXCEPT !.Date = to_datetime(@)]]

MergedRow(l, date, code, desc) ==
    [Patient_ID |-> l.Patient_ID, Shipment_Date |-> l.Shipment_Date,
     Payer |-> l.Payer, Revenue_Booked |-> l.Revenue_Booked,
     Current_Reserve_Held |-> l.Current_Reserve_Held,
     Contract_Terms |-> l.Contract_Terms,
     Date |-> date, Code |-> code, Description |-> desc,
     BioSure_Status |-> "Active", Cash_Impact |-> 0]

matching_claims_AnyPatient(l, right) == right

\* on="Patient_ID": the right rows joined to the left row l, in right order
matching_claims(l, right) ==
    SelectSeq(right, LAMBDA r : r.Patient_ID = l.Patient_ID)

left_rows_Inner(l, matches) ==
    [k \in 1..Len(matches) |->
        MergedRow(l, matches[k].Date, matches[k].Code, matches[k].Description)]

\* how="left": a left row without a match is kept, with NaT / NaN on the right
left_rows(l, matches) ==
    IF matches = <<>>
    THEN << MergedRow(l, NaT, NaN, NaN) >>
    ELSE [k \in 1..Len(matches) |->
            MergedRow(l, matches[k].Date, matches[k].Code, matches[k].Description)]

RECURSIVE merge(_, _)
\* pd.merge(pharma_df, claims_df, on="Patient_ID", how="left")
merge(left, right) ==
    IF left = <<>> THEN <<>>
    ELSE left_rows(Head(left), matching_claims(Head(left), right))
         \o merge(Tail(left), right)

RECURSIVE SortedKeys(_)
SortedKeys(S) ==
    IF S = {} THEN <<>>
    ELSE LET lo == CHOOSE x \in S : \A y \in S : x <= y
         IN  <<lo>> \o SortedKeys(S \ {lo})

\* merged.groupby('Patient_ID'): one group per key, keys in sorted order,
\* each group's rows in the order of merged
groupby(merged) ==
    LET keys == SortedKeys({merged[k].Patient_ID : k \in 1..Len(merged)})
    IN  [k \in 1..Len(keys) |->
            [pid |-> keys[k],
             group |-> SelectSeq(merged, LAMBDA r : r.Patient_ID = keys[k])]]

rescue_codes_OnlyRescue == {"J9359"}

rescue_codes == {"J9359", "Z51.5"}

\* group[group['Code'].isin(rescue_codes)]
failures_of(group) == SelectSeq(group, LAMBDA r : r.Code \in rescue_codes)

current_date == datetime(2024, 10, 1)

days_since_Abs(ship_date) ==
    LET n == days_between(current_date, ship_date)
    IN  IF n < 0 THEN -n ELSE n

\* (current_date - ship_date).days
days_since_of(ship_date) == days_between(current_date, ship_date)

rebate_owed_Inclusive(booked, days_to_fail) ==
    IF days_to_fail <= 180 THEN booked ELSE 0

\* booked if days_to_fail < 180 else 0
rebate_owed_of(booked, days_to_fail) ==
    IF days_to_fail < 180 THEN booked ELSE 0

no_failure_record_Inclusive(record, days_since, reserve) ==
    IF days_since >= 180
    THEN [record EXCEPT !.Status = "Safe (Risk Expired)", !.Cash_Impact = reserve]
    ELSE IF days_since >= 90
    THEN [record EXCEPT !.Status = "Low Risk (Partial Release)",
                        !.Cash_Impact = (reserve * 5) \div 10]
    ELSE record

\* the else branch: no failure-indicating event
no_failure_record(record, days_since, reserve) ==
    IF days_since > 180
    THEN [record EXCEPT !.Status = "Safe (Risk Expired)", !.Cash_Impact = reserve]
    ELSE IF days_since > 90
    THEN [record EXCEPT !.Status = "Low Risk (Partial Release)",
                        !.Cash_Impact = (reserve * 5) \div 10]
    ELSE record

\* the body of the loop over patient_groups
process_group(pid, group) ==
    LET info       == group[1]
        ship_date  == info.Shipment_Date
        reserve    == info.Current_Reserve_Held
        booked     == info.Revenue_Booked
        failures   == failures_of(group)
        days_since == days_since_of(ship_date)
        record     == [Patient_ID |-> pid, Days_On_Therapy |-> days_since,
                       Current_Reserve |-> reserve, Status |-> "Monitoring",
                       Cash_Impact |-> 0]
    IN  IF failures # <<>>
        THEN LET fail_date    == failures[1].Date
                 days_to_fail == days_between(fail_date, ship_date)
                 rebate_owed  == rebate_owed_of(booked, days_to_fail)
             IN  [record EXCEPT !.Status = "Failure Confirmed",
                                !.Cash_Impact = -(rebate_owed - reserve)]
        ELSE no_failure_record(record, days_since, reserve)

\* analyze_portfolio(pharma_df, claims_df): the two arguments as the call
\* leaves them, and the returned frame
analyze_portfolio(pharma, claims) ==
    LET p      == convert_pharma(pharma)
        c      == convert_claims(claims)
        groups == groupby(merge(p, c))
    IN  [pharma_df |-> p,
         claims_df |-> c,
         results   |-> [k \in 1..Len(groups) |->
                          process_group(groups[k].pid, groups[k].group)]]

AnalyzePortfolio_StaleResults ==
    /\ pc = "caller"
    /\ ncalls < MaxCalls
    /\ LET out == analyze_portfolio(pharma_df, claims_df)
       IN  /\ pharma_df' = out.pharma_df
           /\ claims_df' = out.claims_df
           /\ ledger' = ledger \o out.results
    /\ prev_ledger' = ledger
    /\ ncalls' = ncalls + 1
    /\ UNCHANGED <<pc, i, pharma_data, claims_data, csv_files>>

\* a caller invokes analyze_portfolio on the frames it holds
AnalyzePortfolio ==
    /\ pc = "caller"
    /\ ncalls < MaxCalls
    /\ LET out == analyze_portfolio(pharma_df, claims_df)
       IN  /\ pharma_df' = out.pharma_df
           /\ claims_df' = out.claims_df
           /\ ledger' = out.results
    /\ prev_ledger' = ledger
    /\ ncalls' = ncalls + 1
    /\ UNCHANGED <<pc, i, pharma_data, claims_data, csv_files>>

\* one run of main(): read the two csv files, call analyze_portfolio
Main ==
    /\ pc = "main"
    /\ ncalls < MaxCalls
    /\ LET out == analyze_portfolio(csv_files.pharma, csv_files.claims)
       IN  /\ pharma_df' = out.pharma_df
           /\ claims_df' = out.claims_df
           /\ ledger' = out.results
    /\ prev_ledger' = ledger
    /\ ncalls' = ncalls + 1
    /\ UNCHANGED <<pc, i, pharma_data, claims_data, csv_files>>

(***************************************************************************)
(* Inputs of analyze_portfolio (frames as read from csv: dates are text).  *)
(***************************************************************************)
\* patients of the InternalRecord input
PatientPool == {10000, 10001}

\* Patient_IDs that only claim events carry
OrphanIds == {99999}

\* as-of 2024-10-01 these are 181, 180, 91, 90 and -1 days back
ShipmentDates == { <<2024, 4, 3>>, <<2024, 4, 4>>, <<2024, 7, 2>>,
                   <<2024, 7, 3>>, <<2024, 10, 2>> }

\* <<Revenue_Booked, Current_Reserve_Held>>: the generator's pair and another
Contracts == { <<revenue, initial_reserve>>, <<300000, 100000>> }

PharmaRows ==
    { PharmaRow(pid, ship, c[1], c[2]) :
        pid \in PatientPool, ship \in ShipmentDates, c \in Contracts }

\* 2024-09-30 and 2024-10-01 are 179 and 180 days after 2024-04-04
EventKinds == { <<"Q2041", "CAR-T Infusion", <<2024, 4, 4>> >>,
                <<"J9359", "Glofitamab (Columvi)", <<2024, 9, 30>> >>,
                <<"Z51.5", "Hospice", <<2024, 10, 1>> >> }

ClaimRows ==
    { ClaimRow(pid, e[3], e[1], e[2]) :
        pid \in PatientPool \cup OrphanIds, e \in EventKinds }

UniqueIds(s) ==
    \A a, b \in 1..Len(s) : a # b => s[a].Patient_ID # s[b].Patient_ID

PharmaInputs ==
    UNION { { s \in [1..n -> PharmaRows] : UniqueIds(s) } :
            n \in 0..Cardinality(PatientPool) }

ClaimsInputs == UNION { [1..n -> ClaimRows] : n \in 0..MaxClaims }

(***************************************************************************)
(* Specifications                                                          *)
(***************************************************************************)
\* analyze_portfolio on every input of the bounded sets
Init ==
    /\ pc = "caller"
    /\ i = 0
    /\ pharma_data = <<>>
    /\ claims_data = <<>>
    /\ csv_files = [pharma |-> <<>>, claims |-> <<>>]
    /\ pharma_df \in PharmaInputs
    /\ claims_df \in ClaimsInputs
    /\ ledger = <<>>
    /\ prev_ledger = <<>>
    /\ ncalls = 0

Next == AnalyzePortfolio

Spec == Init /\ [][Next]_vars

\* the script: generate_data(), then runs of main()
InitGen ==
    /\ pc = "generate"
    /\ i = 0
    /\ pharma_data = <<>>
    /\ claims_data = <<>>
    /\ csv_files = [pharma |-> <<>>, claims |-> <<>>]
    /\ pharma_df = <<>>
    /\ claims_df = <<>>
    /\ ledger = <<>>
    /\ prev_ledger = <<>>
    /\ ncalls = 0

NextGen == GenIteration \/ WriteCsv \/ Main

SpecGen == InitGen /\ [][NextGen]_vars

(***************************************************************************)
(* Vocabulary of the properties below, stated on the frames and the output *)
(* themselves.                                                             *)
(***************************************************************************)
\* day number of a date cell, text or Timestamp
DayNo(cell) ==
    IF Len(cell) = 3 THEN DaysFromCivil(cell[1], cell[2], cell[3]) ELSE cell[1]

AsOfDay == DaysFromCivil(2024, 10, 1)

FailureCodes == {"J9359", "Z51.5"}

StatusLabels == {"Failure Confirmed", "Safe (Risk Expired)",
                 "Low Risk (Partial Release)", "Monitoring"}

Returned == pc = "caller" /\ ncalls > 0

\* positions in claims_df of the failure-indicating events of patient pid
FailureEvents(pid) ==
    { k \in 1..Len(claims_df) :
        claims_df[k].Patient_ID = pid /\ claims_df[k].Code \in FailureCodes }

EventsOf(pid) == { k \in 1..Len(claims_df) : claims_df[k].Patient_ID = pid }

InternalIds == { pharma_df[k].Patient_ID : k \in 1..Len(pharma_df) }

\* positions in the output of the records of patient pid
RecordsOf(pid) == { j \in 1..Len(ledger) : ledger[j].Patient_ID = pid }

MinOf(S) == CHOOSE x \in S : \A y \in S : x <= y

\* days from shipment to the event at position k of claims_df
DaysToEvent(p, k) == DayNo(claims_df[k].Date) - DayNo(p.Shipment_Date)

DaysSinceShipment(p) == AsOfDay - DayNo(p.Shipment_Date)

\* C1: after a call the output holds exactly one record per InternalRecord:
\* as many records as input rows, and each input Patient_ID in exactly one.
C1_OneRecordPerInternalRecord ==
    Returned =>
        /\ Len(ledger) = Len(pharma_df)
        /\ \A k \in 1..Len(pharma_df) :
              Cardinality(RecordsOf(pharma_df[k].Patient_ID)) = 1

\* two patients returned, one with two claim events and one with none
C1_Witness ==
    /\ Returned
    /\ Len(pharma_df) = 2 /\ Len(ledger) = 2
    /\ \E a, b \in InternalIds :
          Cardinality(EventsOf(a)) = 2 /\ EventsOf(b) = {}

\* C2: with failure-indicating events present, the cash impact is the one of
\* the earliest failure event by date, whatever the order of the events.
C2_EarliestFailureUsed ==
    Returned =>
        \A k \in 1..Len(pharma_df) :
            LET p == pharma_df[k]
                F == FailureEvents(p.Patient_ID)
            IN  F # {} =>
                  LET earliest == MinOf({ DaysToEvent(p, e) : e \in F })
                      owed     == IF earliest < 180 THEN p.Revenue_Booked ELSE 0
                  IN  \A j \in RecordsOf(p.Patient_ID) :
                          ledger[j].Cash_Impact = -(owed - p.Current_Reserve_Held)

\* C3: a patient with a failure-indicating event is "Failure Confirmed"; with
\* days_to_fail (of the failure event analyze_portfolio reads, the patient's
\* first in the ClaimEvent input) < 180 the cash impact is
\* -(Revenue_Booked - Current_Reserve_Held), with days_to_fail >= 180 it is
\* +Current_Reserve_Held.
C3_StrictWindow ==
    Returned =>
        \A k \in 1..Len(pharma_df) :
            LET p == pharma_df[k]
                F == FailureEvents(p.Patient_ID)
            IN  F # {} =>
                  LET days_to_fail == DaysToEvent(p, MinOf(F))
                  IN  \A j \in RecordsOf(p.Patient_ID) :
                        /\ ledger[j].Status = "Failure Confirmed"
                        /\ days_to_fail < 180 =>
                             ledger[j].Cash_Impact =
                                 -(p.Revenue_Booked - p.Current_Reserve_Held)
                        /\ days_to_fail >= 180 =>
                             ledger[j].Cash_Impact = p.Current_Reserve_Held

\* one patient failed at day 179 and another at day 180 exactly
C3_Witness ==
    /\ Returned
    /\ \E a, b \in 1..Len(pharma_df) :
          /\ FailureEvents(pharma_df[a].Patient_ID) # {}
          /\ FailureEvents(pharma_df[b].Patient_ID) # {}
          /\ DaysToEvent(pharma_df[a], MinOf(FailureEvents(pharma_df[a].Patient_ID))) = 179
          /\ DaysToEvent(pharma_df[b], MinOf(FailureEvents(pharma_df[b].Patient_ID))) = 180
          /\ \E j \in RecordsOf(pharma_df[a].Patient_ID) : ledger[j].Cash_Impact < 0
          /\ \E j \in RecordsOf(pharma_df[b].Patient_ID) : ledger[j].Cash_Impact > 0

\* C4: without a failure-indicating event the record follows days_since alone:
\* > 180 "Safe (Risk Expired)" with the reserve, 90 < . <= 180 "Low Risk
\* (Partial Release)" with half the reserve, <= 90 "Monitoring" with 0.
C4_NoFailureBands ==
    Returned =>
        \A k \in 1..Len(pharma_df) :
            LET p  == pharma_df[k]
                ds == DaysSinceShipment(p)
            IN  FailureEvents(p.Patient_ID) = {} =>
                  \A j \in RecordsOf(p.Patient_ID) :
                    /\ ds > 180 =>
                         /\ ledger[j].Status = "Safe (Risk Expired)"
                         /\ ledger[j].Cash_Impact = p.Current_Reserve_Held
                    /\ (90 < ds /\ ds <= 180) =>
                         /\ ledger[j].Status = "Low Risk (Partial Release)"
                         /\ 2 * ledger[j].Cash_Impact = p.Current_Reserve_Held
                    /\ ds <= 90 =>
                         /\ ledger[j].Status = "Monitoring"
                         /\ ledger[j].Cash_Impact = 0

\* the two boundaries at once: a patient at day 180 with only an infusion
\* event, and a patient at day 90 with no event
C4_Witness ==
    /\ Returned
    /\ \E a, b \in 1..Len(pharma_df) :
          /\ DaysSinceShipment(pharma_df[a]) = 180
          /\ EventsOf(pharma_df[a].Patient_ID) # {}
          /\ FailureEvents(pharma_df[a].Patient_ID) = {}
          /\ DaysSinceShipment(pharma_df[b]) = 90
          /\ EventsOf(pharma_df[b].Patient_ID) = {}
          /\ \E j \in RecordsOf(pharma_df[a].Patient_ID) :
                ledger[j].Status = "Low Risk (Partial Release)"
          /\ \E j \in RecordsOf(pharma_df[b].Patient_ID) :
                ledger[j].Status = "Monitoring"

\* C5: a call of analyze_portfolio leaves both of the caller's frames as they
\* were, the representation of Shipment_Date and Date included.
C5_InputsUnchanged ==
    [][pharma_df' = pharma_df /\ claims_df' = claims_df]_vars

\* C6: a second call on the same frames returns the same records, in the
\* same order, as the first.
C6_SecondCallSameOutput ==
    (pc = "caller" /\ ncalls >= 2) => ledger = prev_ledger

\* two calls made on two patients, one of them failed
C6_Witness ==
    /\ pc = "caller" /\ ncalls = 2
    /\ Len(ledger) = 2
    /\ \E j \in 1..Len(ledger) : ledger[j].Status = "Failure Confirmed"
    /\ \E j \in 1..Len(ledger) : ledger[j].Status # "Failure Confirmed"

WithoutOrphans(claims) ==
    SelectSeq(claims, LAMBDA r : r.Patient_ID \in InternalIds)

\* C7: claim events of a Patient_ID without InternalRecord are ignored: the
\* call returns, no record carries such a Patient_ID, and the output is the
\* output for the same input without those events.
C7_OrphanEventsIgnored ==
    Returned =>
        /\ \A j \in 1..Len(ledger) : ledger[j].Patient_ID \in InternalIds
        /\ ledger = analyze_portfolio(pharma_df, WithoutOrphans(claims_df)).results

\* an orphan failure event beside a patient that has no failure event
C7_Witness ==
    /\ Returned
    /\ \E k \in 1..Len(claims_df) :
          /\ claims_df[k].Patient_ID \notin InternalIds
          /\ claims_df[k].Code \in FailureCodes
    /\ \E k \in 1..Len(pharma_df) :
          /\ FailureEvents(pharma_df[k].Patient_ID) = {}
          /\ RecordsOf(pharma_df[k].Patient_ID) # {}

\* C8 as claimed: every InternalRecord shipped after the as-of date gets a
\* record with the negative day count, "Monitoring" and cash impact 0.
C8_FutureShipmentMonitoring ==
    Returned =>
        \A k \in 1..Len(pharma_df) :
            LET p == pharma_df[k]
            IN  DaysSinceShipment(p) < 0 =>
                  /\ RecordsOf(p.Patient_ID) # {}
                  /\ \A j \in RecordsOf(p.Patient_ID) :
                        /\ ledger[j].Days_On_Therapy = DaysSinceShipment(p)
                        /\ ledger[j].Status = "Monitoring"
                        /\ ledger[j].Cash_Impact = 0

\* C8 amended: every InternalRecord shipped after the as-of date gets a
\* record with the negative day count; it is "Monitoring" with cash impact 0
\* when the patient has no failure-indicating event and "Failure Confirmed"
\* when it has one.
C8_FutureShipmentAmended ==
    Returned =>
        \A k \in 1..Len(pharma_df) :
            LET p == pharma_df[k]
            IN  DaysSinceShipment(p) < 0 =>
                  /\ RecordsOf(p.Patient_ID) # {}
                  /\ \A j \in RecordsOf(p.Patient_ID) :
                        /\ ledger[j].Days_On_Therapy = DaysSinceShipment(p)
                        /\ ledger[j].Days_On_Therapy < 0
                        /\ FailureEvents(p.Patient_ID) = {} =>
                             /\ ledger[j].Status = "Monitoring"
                             /\ ledger[j].Cash_Impact = 0
                        /\ FailureEvents(p.Patient_ID) # {} =>
                             ledger[j].Status = "Failure Confirmed"

\* a patient shipped after the as-of date, without failure event, returned
C8_Witness ==
    /\ Returned
    /\ \E k \in 1..Len(pharma_df) :
          /\ DaysSinceShipment(pharma_df[k]) < 0
          /\ FailureEvents(pharma_df[k].Patient_ID) = {}
          /\ \E j \in RecordsOf(pharma_df[k].Patient_ID) :
                ledger[j].Status = "Monitoring" /\ ledger[j].Days_On_Therapy < 0

\* C9: every Status is one of the four labels, never 'Active', and it is
\* "Failure Confirmed" exactly when the patient has a J9359 or Z51.5 event.
C9_StatusLabels ==
    Returned =>
        \A j \in 1..Len(ledger) :
            /\ ledger[j].Status \in StatusLabels
            /\ ledger[j].Status # "Active"
            /\ ledger[j].Status = "Failure Confirmed"
                 <=> FailureEvents(ledger[j].Patient_ID) # {}

\* a patient failed by a hospice event beside a patient that has only an
\* infusion event
C9_Witness ==
    /\ Returned
    /\ \E a, b \in 1..Len(ledger) :
          /\ ledger[a].Status = "Failure Confirmed"
          /\ \A k \in FailureEvents(ledger[a].Patient_ID) : claims_df[k].Code = "Z51.5"
          /\ ledger[b].Status # "Failure Confirmed"
          /\ \E k \in EventsOf(ledger[b].Patient_ID) : claims_df[k].Code = "Q2041"

GenEvents(pid, codes) ==
    { k \in 1..Len(claims_data) :
        claims_data[k].Patient_ID = pid /\ claims_data[k].Code \in codes }

\* C10: after every iteration of generate_data's loop the Patient_IDs of the
\* internal records are pairwise distinct, every claim event belongs to an
\* internal record already generated, and each patient has exactly one Q2041
\* event, dated on its shipment date, and at most one rescue event, dated 30
\* to 200 days after the shipment date.
C10_GeneratedIntegrity ==
    /\ Len(pharma_data) = i
    /\ \A a, b \in 1..Len(pharma_data) :
          a # b => pharma_data[a].Patient_ID # pharma_data[b].Patient_ID
    /\ \A k \in 1..Len(claims_data) :
          \E a \in 1..Len(pharma_data) :
              pharma_data[a].Patient_ID = claims_data[k].Patient_ID
    /\ \A a \in 1..Len(pharma_data) :
          LET p == pharma_data[a]
          IN  /\ Cardinality(GenEvents(p.Patient_ID, {"Q2041"})) = 1
              /\ \A k \in GenEvents(p.Patient_ID, {"Q2041"}) :
                    claims_data[k].Date = p.Shipment_Date
              /\ Cardinality(GenEvents(p.Patient_ID, FailureCodes)) <= 1
              /\ \A k \in GenEvents(p.Patient_ID, FailureCodes) :
                    LET gap == DayNo(claims_data[k].Date) - DayNo(p.Shipment_Date)
                    IN  30 <= gap /\ gap <= 200
              /\ Cardinality(GenEvents(p.Patient_ID, {"Q2041"} \cup FailureCodes))
                    = Cardinality({ k \in 1..Len(claims_data) :
                                      claims_data[k].Patient_ID = p.Patient_ID })

\* the loop has run twice or more; one patient has a rescue event 200 days
\* after a shipment of 2024-05-31, another has none
C10_Witness ==
    /\ pc = "generate" /\ i >= 2
    /\ \E a, b \in 1..Len(pharma_data) :
          /\ pharma_data[a].Shipment_Date = <<2024, 5, 31>>
          /\ \E k \in GenEvents(pharma_data[a].Patient_ID, FailureCodes) :
                DayNo(claims_data[k].Date) - DayNo(pharma_data[a].Shipment_Date) = 200
          /\ GenEvents(pharma_data[b].Patient_ID, FailureCodes) = {}

====
